---- MODULE Spec2Model ----
(***************************************************************************)
(* The request path of the proxy (src/main.py): ExchangeProxy.make_request *)
(* run by several concurrent forwarding calls on one asyncio event loop.   *)
(*                                                                         *)
(* A coroutine runs without interruption from one await to the next, so    *)
(* every action below is the code of make_request between two suspension   *)
(* points: the semaphore's acquire, asyncio.sleep (rate limit and backoff) *)
(* and the upstream I/O of the httpx client.                               *)
(*                                                                         *)
(* Time is in milliseconds.  The clock advances in steps of Quantum; the   *)
(* model keeps, instead of absolute time stamps, the time elapsed since    *)
(* last_request_time (followed up to RATE_LIMIT_DELAY, the only value it   *)
(* is compared with) and the time left of every sleep (followed up to      *)
(* SleepHorizon: a longer sleep is known to last at least that long).      *)
(***************************************************************************)
EXTENDS Integers, Sequences, FiniteSets, TLC

\* ------------------------------------------------------------ configuration
\* src/main.py:33
MAX_RETRIES == 3
\* src/main.py:34, RATE_LIMIT_DELAY = 0.05 s, in milliseconds
RATE_LIMIT_DELAY == 50
\* src/main.py:35 sets 10; the model gives the gate a capacity of 2 and issues
\* one call more than the capacity, so that calls do queue at the gate.
MAX_CONCURRENT_REQUESTS == 2

\* ------------------------------------------------------------------ bounds
\* forwarding calls issued during a run
NumCalls == 3
\* milliseconds by which one Tick advances the clock
Quantum == 25
\* milliseconds up to which the time left of a sleep is followed
SleepHorizon == 50

Calls == 1..NumCalls

Min(a, b) == IF a < b THEN a ELSE b
Max(a, b) == IF a > b THEN a ELSE b

\* ------------------------------------------------------------------ inputs
\* ProxyRequest.method as the callers send it
MethodInputs == {"get", "PATCH"}

\* str.upper() on the method names in use
Upper(m) ==
    CASE m = "get" -> "GET"
      [] m = "post" -> "POST"
      [] m = "Post" -> "POST"
      [] m = "put" -> "PUT"
      [] m = "delete" -> "DELETE"
      [] m = "patch" -> "PATCH"
      [] OTHER -> m

\* the branches of the method dispatch that issue a request
SupportedMethods == {"GET", "POST", "PUT", "DELETE"}

\* what one upstream request can end in: a response that passes
\* raise_for_status, a response that does not (httpx.HTTPStatusError), or a
\* failure of the transport (timeout, connection failure)
\* the headers of a response are the <<name, value>> pairs the upstream sent;
\* a text is a sequence of characters; the body of an error response and the
\* message of an exception, which are never parsed, are kept in one piece
OkResponses ==
    {[kind |-> "ok", status |-> 200, text |-> <<"{", "}">>,
      headers |-> {<<"Content-Type", "application/json">>, <<"Content-Length", "2">>}]}
StatusErrors ==
    {[kind |-> "status", status |-> 404, text |-> <<"Not Found">>,
      headers |-> {<<"Content-Type", "text/plain">>}],
     [kind |-> "status", status |-> 503, text |-> <<"Service Unavailable">>,
      headers |-> {<<"Content-Type", "text/plain">>}]}
TransportErrors ==
    {[kind |-> "transport", status |-> 0, text |-> <<"ReadTimeout">>, headers |-> {}],
     [kind |-> "transport", status |-> 0, text |-> <<"ConnectError">>, headers |-> {}]}
Outcomes == OkResponses \cup StatusErrors \cup TransportErrors

\* ProxyRequest.url as the callers send it
UrlInputs == {"https://api.exchange.example/v1/ticker"}

\* the requests and responses of a call that is served alone
WideMethodInputs == {"get", "Post", "PATCH"}
WideUrlInputs == UrlInputs \cup {"https://api.exchange.example/v1/orders"}
Bodies ==
    {<<>>,
     <<" ", "\n">>,
     <<"{", "}">>,
     <<" ", "{", "\"", "a", "\"", ":", "1", "}", "\n">>,
     <<"[", "1", ",", "2", "]">>,
     <<"\"", "o", "k", "\"">>,
     <<"O", "K">>,
     <<"{", "\"", "a", "\"", ":">>,
     <<"1", " ", "2">>}
HeaderInputs ==
    {{},
     {<<"Content-Type", "application/json">>, <<"Content-Length", "2">>},
     {<<"content-type", "application/json">>, <<"CONTENT-LENGTH", "2">>,
      <<"Transfer-Encoding", "chunked">>},
     {<<"Content-length", "2">>, <<"content-encoding", "gzip">>,
      <<"X-Request-Id", "r1">>}}
WideOkResponses ==
    {[kind |-> "ok", status |-> st, text |-> b, headers |-> h] :
        st \in {200, 204}, b \in Bodies, h \in HeaderInputs}
WideOutcomes == WideOkResponses \cup StatusErrors \cup TransportErrors

NoResponse == [kind |-> "none", status |-> 0, text |-> <<>>, headers |-> {}]
NoResult == [kind |-> "none"]
NoReply == [kind |-> "none"]
NoStatus == [status |-> "none"]

\* ------------------------------------------------------------------- state
VARIABLES
    pc,               \* where each call is suspended
    method,           \* proxy_request.method of each call
    url,              \* proxy_request.url of each call
    attempt,          \* the loop variable of the retry loop
    timer,            \* milliseconds left of the call's asyncio.sleep
    sem_value,        \* self.semaphore._value: free admission slots
    sem_waiters,      \* self.semaphore._waiters: calls blocked in acquire, FIFO
    active_requests,  \* global active_requests
    request_count,    \* global request_count
    elapsed,          \* time.time() - last_request_time, up to RATE_LIMIT_DELAY
    last_gap,         \* elapsed at the latest write of last_request_time
    log,              \* what each call has done so far, in order
    last_response,    \* outcome of the call's latest upstream request
    result,           \* what make_request returned to the call
    response,         \* what unified_proxy answered the call's client
    status_reply      \* what get_status returned last

vars == <<pc, method, url, attempt, timer, sem_value, sem_waiters,
          active_requests, request_count, elapsed, last_gap, log, last_response,
          result, response, status_reply>>

\* the state as one value, for the sequential code below
State ==
    [pc |-> pc, method |-> method, url |-> url, attempt |-> attempt,
     timer |-> timer,
     sem_value |-> sem_value, sem_waiters |-> sem_waiters,
     active_requests |-> active_requests, request_count |-> request_count,
     elapsed |-> elapsed, last_gap |-> last_gap, log |-> log,
     last_response |-> last_response, result |-> result,
     response |-> response, status_reply |-> status_reply]

\* the state after a step is s, computed once
Becomes(s) ==
    \E t \in {s} :
        /\ pc' = t.pc
        /\ method' = t.method
        /\ url' = t.url
        /\ attempt' = t.attempt
        /\ timer' = t.timer
        /\ sem_value' = t.sem_value
        /\ sem_waiters' = t.sem_waiters
        /\ active_requests' = t.active_requests
        /\ request_count' = t.request_count
        /\ elapsed' = t.elapsed
        /\ last_gap' = t.last_gap
        /\ log' = t.log
        /\ last_response' = t.last_response
        /\ result' = t.result
        /\ response' = t.response
        /\ status_reply' = t.status_reply

Init ==
    /\ pc = [c \in Calls |-> "idle"]
    /\ method = [c \in Calls |-> ""]
    /\ url = [c \in Calls |-> ""]
    /\ attempt = [c \in Calls |-> 0]
    /\ timer = [c \in Calls |-> 0]
    /\ sem_value = MAX_CONCURRENT_REQUESTS
    /\ sem_waiters = <<>>
    /\ active_requests = 0
    /\ request_count = 0
    /\ elapsed = RATE_LIMIT_DELAY
    /\ last_gap = RATE_LIMIT_DELAY
    /\ log = [c \in Calls |-> <<>>]
    /\ last_response = [c \in Calls |-> NoResponse]
    /\ result = [c \in Calls |-> NoResult]
    /\ response = [c \in Calls |-> NoReply]
    /\ status_reply = NoStatus

\* ------------------------------------------------------- the call's record
Ev(e, n) == [ev |-> e, n |-> n]
Note(s, c, e, n) == [s EXCEPT !.log[c] = Append(@, Ev(e, n))]

RECURSIVE CountEv(_, _)
CountEv(l, e) ==
    IF l = <<>> THEN 0
    ELSE (IF l[1].ev = e THEN 1 ELSE 0) + CountEv(Tail(l), e)

RECURSIVE ArgsOf(_, _)
ArgsOf(l, e) ==
    IF l = <<>> THEN <<>>
    ELSE (IF l[1].ev = e THEN <<l[1].n>> ELSE <<>>) \o ArgsOf(Tail(l), e)

\* ------------------------------------------------------ Python values
\* text is a sequence of one-character strings
PyNone == [t |-> "None", v |-> <<>>]
PyInt(n) == [t |-> "int", v |-> n]
PyStr(chars) == [t |-> "str", v |-> chars]
PyList(items) == [t |-> "list", v |-> items]
\* a dict, as the sequence of its <<key, value>> pairs
PyDict(pairs) == [t |-> "dict", v |-> pairs]

\* ----------------------------------------------------------- str.strip
Whitespace == {" ", "\n", "\t"}

RECURSIVE LStrip(_)
LStrip(t) == IF t # <<>> /\ Head(t) \in Whitespace THEN LStrip(Tail(t)) ELSE t

RECURSIVE RStrip(_)
RStrip(t) ==
    IF t # <<>> /\ t[Len(t)] \in Whitespace
    THEN RStrip(SubSeq(t, 1, Len(t) - 1))
    ELSE t

Strip(t) == RStrip(LStrip(t))

\* ------------------------------------------------------- response.json()
\* json.loads on numbers, strings, arrays and objects
DigitValue(ch) ==
    CASE ch = "0" -> 0 [] ch = "1" -> 1 [] ch = "2" -> 2 [] ch = "3" -> 3
      [] ch = "4" -> 4 [] ch = "5" -> 5 [] ch = "6" -> 6 [] ch = "7" -> 7
      [] ch = "8" -> 8 [] ch = "9" -> 9 [] OTHER -> -1
IsDigit(ch) == DigitValue(ch) >= 0
Quote == "\""

Parsed(val, next) == [ok |-> TRUE, val |-> val, next |-> next]
ParseFails(i) == [ok |-> FALSE, val |-> PyNone, next |-> i]

RECURSIVE SkipWs(_, _)
SkipWs(t, i) == IF i <= Len(t) /\ t[i] \in Whitespace THEN SkipWs(t, i + 1) ELSE i

RECURSIVE ParseDigits(_, _, _)
ParseDigits(t, i, acc) ==
    IF i <= Len(t) /\ IsDigit(t[i])
    THEN ParseDigits(t, i + 1, acc * 10 + DigitValue(t[i]))
    ELSE Parsed(PyInt(acc), i)

\* the characters of a string, from behind its opening quote
RECURSIVE ParseChars(_, _, _)
ParseChars(t, i, acc) ==
    IF i > Len(t) THEN ParseFails(i)
    ELSE IF t[i] = Quote THEN Parsed(PyStr(acc), i + 1)
    ELSE ParseChars(t, i + 1, Append(acc, t[i]))

RECURSIVE ParseValue(_, _)
RECURSIVE ParseElements(_, _, _)
RECURSIVE ParseMembers(_, _, _)

ParseValue(t, i0) ==
    LET i == SkipWs(t, i0)
    IN IF i > Len(t) THEN ParseFails(i)
       ELSE IF IsDigit(t[i]) THEN ParseDigits(t, i, 0)
       ELSE IF t[i] = Quote THEN ParseChars(t, i + 1, <<>>)
       ELSE IF t[i] = "["
            THEN LET j == SkipWs(t, i + 1)
                 IN IF j <= Len(t) /\ t[j] = "]"
                    THEN Parsed(PyList(<<>>), j + 1)
                    ELSE ParseElements(t, i + 1, <<>>)
       ELSE IF t[i] = "{"
            THEN LET j == SkipWs(t, i + 1)
                 IN IF j <= Len(t) /\ t[j] = "}"
                    THEN Parsed(PyDict(<<>>), j + 1)
                    ELSE ParseMembers(t, i + 1, <<>>)
       ELSE ParseFails(i)

\* the elements of an array, from behind "[" or ","
ParseElements(t, i, acc) ==
    LET r == ParseValue(t, i)
        j == SkipWs(t, r.next)
    IN IF ~r.ok \/ j > Len(t) THEN ParseFails(j)
       ELSE IF t[j] = "," THEN ParseElements(t, j + 1, Append(acc, r.val))
       ELSE IF t[j] = "]" THEN Parsed(PyList(Append(acc, r.val)), j + 1)
       ELSE ParseFails(j)

\* the members of an object, from behind "{" or ","
ParseMembers(t, i, acc) ==
    LET k == SkipWs(t, i)
    IN IF k > Len(t) \/ t[k] # Quote THEN ParseFails(k)
       ELSE LET key == ParseChars(t, k + 1, <<>>)
                j == SkipWs(t, key.next)
            IN IF ~key.ok \/ j > Len(t) \/ t[j] # ":" THEN ParseFails(j)
               ELSE LET r == ParseValue(t, j + 1)
                        e == SkipWs(t, r.next)
                        members == Append(acc, <<key.val.v, r.val>>)
                    IN IF ~r.ok \/ e > Len(t) THEN ParseFails(e)
                       ELSE IF t[e] = "," THEN ParseMembers(t, e + 1, members)
                       ELSE IF t[e] = "}" THEN Parsed(PyDict(members), e + 1)
                       ELSE ParseFails(e)

\* json.loads(text): one value, with nothing but whitespace around it
JsonLoads(t) ==
    LET r == ParseValue(t, 1)
    IN IF r.ok /\ SkipWs(t, r.next) > Len(t) THEN r ELSE ParseFails(r.next)

\* a body parsed whatever it holds
NormalizeBodyAlwaysParsing(text) ==
    LET j == JsonLoads(text)
    IN IF j.ok THEN [data |-> j.val, parse_warning |-> FALSE]
       ELSE [data |-> PyStr(text), parse_warning |-> TRUE]

\* "response.json() if response_text.strip() else {}", and the text with a
\* parse warning when json() raises
NormalizeBody(text) ==
    IF Strip(text) = <<>> THEN [data |-> PyDict(<<>>), parse_warning |-> FALSE]
    ELSE LET j == JsonLoads(text)
         IN IF j.ok THEN [data |-> j.val, parse_warning |-> FALSE]
            ELSE [data |-> PyStr(text), parse_warning |-> TRUE]

\* --------------------------------------------------------- header maps
\* str.lower() on the header names in use
Lower(name) ==
    CASE name \in {"Content-Type", "content-type"} -> "content-type"
      [] name \in {"Content-Length", "CONTENT-LENGTH", "Content-length",
                   "content-length"} -> "content-length"
      [] name \in {"Transfer-Encoding", "transfer-encoding"} -> "transfer-encoding"
      [] name \in {"Content-Encoding", "content-encoding"} -> "content-encoding"
      [] name \in {"X-Request-Id", "x-request-id"} -> "x-request-id"
      [] name \in {"X-Proxy-Status", "x-proxy-status"} -> "x-proxy-status"
      [] name \in {"X-Proxy-Method", "x-proxy-method"} -> "x-proxy-method"
      [] name \in {"X-Proxy-URL", "x-proxy-url"} -> "x-proxy-url"
      [] name \in {"X-Proxy-Active-Requests", "x-proxy-active-requests"}
            -> "x-proxy-active-requests"
      [] OTHER -> name

\* a dict of headers, as the set of its <<key, value>> items
EmptyDict == {}
Keys(d) == {p[1] : p \in d}
Pop(d, k) == {p \in d : p[1] # k}
SetItem(d, k, v) == {p \in d : p[1] # k} \cup {<<k, v>>}

\* a header map whose keys keep the letter case the upstream sent
HeadersDictKeepingCase(raw) == raw

\* dict(response.headers): the keys of httpx.Headers are the lower-cased
\* names (no two names of the header inputs differ in their letter case only)
HeadersDict(raw) == {<<Lower(p[1]), p[2]>> : p \in raw}

\* --------------------------------------------------------- unified_proxy
\* the six response_headers.pop(...) calls
StripHeaders(h) ==
    Pop(Pop(Pop(Pop(Pop(Pop(h, "content-length"), "Content-Length"),
                    "transfer-encoding"), "Transfer-Encoding"),
            "content-encoding"), "Content-Encoding")

\* "Add our own headers"; active is the global active_requests
AddProxyHeaders(h, r, active) ==
    SetItem(SetItem(SetItem(SetItem(h, "X-Proxy-Status", "success"),
                            "X-Proxy-Method", r.method),
                    "X-Proxy-URL", r.url),
            "X-Proxy-Active-Requests", ToString(active))

\* text/plain if isinstance(result["data"], str), else application/json
MediaType(data) == IF data.t = "str" THEN "text/plain" ELSE "application/json"

\* json.dumps(data) for a dict or a list, str(data) otherwise
Content(data) ==
    IF data.t \in {"dict", "list"} THEN <<"json.dumps", data>> ELSE <<"str", data>>

\* what unified_proxy makes of the value r of "await proxy.make_request(...)":
\* a Response, an HTTPException, or the TypeError of subscripting None
UnifiedProxy(r, active) ==
    IF r.kind = "None" THEN [kind |-> "TypeError"]
    ELSE IF r.success
    THEN [kind |-> "Response", status_code |-> r.status_code,
          headers |-> AddProxyHeaders(StripHeaders(r.headers), r, active),
          media_type |-> MediaType(r.data), content |-> Content(r.data)]
    ELSE [kind |-> "HTTPException", status_code |-> r.status_code,
          detail |-> r.error, headers |-> EmptyDict]

\* --------------------------------------------------- asyncio.Semaphore
\* self.semaphore, as CPython's asyncio.Semaphore behaves: release() hands the
\* slot to the first queued call, which runs again later.
\* a gate that never reports itself locked
LockedNever(s) == FALSE

\* Semaphore.locked(): no free slot, or a call is still queued in acquire (a
\* woken call stays in the queue until it runs again)
Locked(s) ==
    \/ s.sem_value = 0
    \/ s.sem_waiters # <<>>
    \/ \E c \in Calls : s.pc[c] = "woken"

\* a release that wakes no queued call
WakeUpNextNever(s) == s

\* Semaphore._wake_up_next(): hand a free slot to the first queued call
WakeUpNext(s) ==
    IF s.sem_waiters = <<>> THEN s
    ELSE LET w == Head(s.sem_waiters)
         IN Note([s EXCEPT !.sem_value = @ - 1,
                           !.sem_waiters = Tail(@),
                           !.pc[w] = "woken"], w, "slot", 0)

\* Semaphore.release(), the exit of "async with self.semaphore"
Release(s) == WakeUpNext([s EXCEPT !.sem_value = @ + 1])

\* ------------------------------------------------------- make_request
\* a return that skips the "finally" block
ReturnSkipsFinally(s, c, r) ==
    LET s2 == Note(Release(s), c, "release", 0)
    IN [s2 EXCEPT !.pc[c] = "done", !.result[c] = r,
                  !.response[c] = UnifiedProxy(r, s2.active_requests)]

\* "finally: active_requests -= 1", then the semaphore's release, then the
\* return of r to unified_proxy, which answers the client
Return(s, c, r) ==
    LET s1 == Note([s EXCEPT !.active_requests = @ - 1], c, "finally", 0)
        s2 == Note(Release(s1), c, "release", 0)
    IN [s2 EXCEPT !.pc[c] = "done", !.result[c] = r,
                  !.response[c] = UnifiedProxy(r, s2.active_requests)]

\* a sleep that gives the admission slot back while it lasts
SleepWithoutSlot(s, c, why, ms) ==
    [Release(Note([s EXCEPT !.active_requests = @ - 1], c, why, ms))
        EXCEPT !.pc[c] = why, !.timer[c] = Min(ms, SleepHorizon)]

\* await asyncio.sleep(ms / 1000)
Sleep(s, c, why, ms) ==
    [Note(s, c, why, ms) EXCEPT !.pc[c] = why, !.timer[c] = Min(ms, SleepHorizon)]

\* a backoff that does not grow
BackoffFixed(k) == 1000

\* 1 * (2 ** attempt) seconds, in milliseconds
Backoff(k) == 1000 * (2 ^ k)

\* attempt == MAX_RETRIES - 1
IsFinalAttempt(k) == k = MAX_RETRIES - 1

\* the dict returned after a response that passed raise_for_status; the
\* fallback dict has the key parse_warning
SuccessResult(s, c, r) ==
    LET n == NormalizeBody(r.text)
        d == [kind |-> "result", success |-> TRUE, status_code |-> r.status,
              headers |-> HeadersDict(r.headers), data |-> n.data,
              method |-> Upper(s.method[c]), url |-> s.url[c]]
    IN IF n.parse_warning THEN d @@ [parse_warning |-> "JSON parse failed"] ELSE d

\* a status error reported like any other failure
StatusErrorAsLocalFailure(s, c, e) ==
    [kind |-> "result", success |-> FALSE, status_code |-> 500,
     data |-> "None", error |-> <<e.text>>, method |-> Upper(s.method[c]),
     url |-> s.url[c]]

\* the dict returned by "except httpx.HTTPStatusError" on the final attempt;
\* error is f"HTTP {status_code}: {text}"
StatusErrorResult(s, c, e) ==
    [kind |-> "result", success |-> FALSE, status_code |-> e.status,
     headers |-> HeadersDict(e.headers), data |-> e.text,
     error |-> <<"HTTP", e.status, e.text>>,
     method |-> Upper(s.method[c]), url |-> s.url[c]]

\* a local failure reported without the exception's message
ExceptionResultGeneric(s, c, e) ==
    [kind |-> "result", success |-> FALSE, status_code |-> 500,
     data |-> "None", error |-> << <<"Internal Server Error">> >>,
     method |-> Upper(s.method[c]), url |-> s.url[c]]

\* the dict returned by "except Exception" on the final attempt; error is str(e)
ExceptionResult(s, c, e) ==
    [kind |-> "result", success |-> FALSE, status_code |-> 500,
     data |-> "None", error |-> <<e.text>>, method |-> Upper(s.method[c]),
     url |-> s.url[c]]

\* a function body that ends without a return statement returns None
NoneResult == [kind |-> "None"]

\* raise HTTPException(status_code=400, detail=f"Unsupported method: {method}")
UnsupportedMethod ==
    [kind |-> "exception", status |-> 400, text |-> <<"Unsupported method">>,
     headers |-> {}]

\* a loop that returns only from its final iteration
OnSuccessKeepsTrying(s, c, r) ==
    IF IsFinalAttempt(s.attempt[c])
    THEN Return(s, c, SuccessResult(s, c, r))
    ELSE Sleep(s, c, "backoff", Backoff(s.attempt[c]))

\* the response passed raise_for_status: return the normalized response
OnSuccess(s, c, r) == Return(s, c, SuccessResult(s, c, r))

\* except httpx.HTTPStatusError as e
OnStatusError(s, c, k, e) ==
    IF IsFinalAttempt(k)
    THEN Return(s, c, StatusErrorResult(s, c, e))
    ELSE Sleep(s, c, "backoff", Backoff(k))

\* except Exception as e
OnException(s, c, k, e) ==
    IF IsFinalAttempt(k)
    THEN Return(s, c, ExceptionResult(s, c, e))
    ELSE Sleep(s, c, "backoff", Backoff(k))

\* an exception that no except clause of make_request catches leaves it,
\* through "finally" and the semaphore's release
Propagate(s, c, e) ==
    LET s1 == Note([s EXCEPT !.active_requests = @ - 1], c, "finally", 0)
        s2 == Note(Release(s1), c, "release", 0)
    IN [s2 EXCEPT !.pc[c] = "done", !.result[c] = [kind |-> "raised"],
                  !.response[c] = [kind |-> "raised"]]

\* an "except Exception" clause placed first catches the status errors too
IsHTTPStatusErrorNever(e) == FALSE

\* the exception classes: httpx.HTTPStatusError; the subclasses of Exception
\* (httpx's transport errors, fastapi's HTTPException)
IsHTTPStatusError(e) == e.kind = "status"
\* a last except clause that catches httpx's errors only
IsHttpxErrorOnly(e) == e.kind \in {"status", "transport"}
IsException(e) == e.kind \in {"status", "transport", "exception"}

\* the except clauses of the retry loop's try, in their order
Raise(s, c, k, e) ==
    IF IsHTTPStatusError(e) THEN OnStatusError(s, c, k, e)
    ELSE IF IsException(e) THEN OnException(s, c, k, e)
    ELSE Propagate(s, c, e)

\* a request counter incremented inside the retry loop
BeginIterationCounting(s, c, k) ==
    Note([s EXCEPT !.attempt[c] = k, !.request_count = @ + 1], c, "iter", k)

\* "for attempt in range(MAX_RETRIES)" binds the loop variable
BeginIteration(s, c, k) == Note([s EXCEPT !.attempt[c] = k], c, "iter", k)

\* one iteration of the retry loop, up to its await: the method dispatch
\* issues the upstream request, or raises for a method that has no branch
Attempt(s, c, k) ==
    LET s1 == BeginIteration(s, c, k)
    IN IF Upper(s.method[c]) \in SupportedMethods
       THEN Note([s1 EXCEPT !.pc[c] = "io"], c, "upstream", k)
       ELSE Raise(s1, c, k, UnsupportedMethod)

\* a retry that stamps last_request_time again
NextIterationStamping(s, c) ==
    LET s1 == Note([s EXCEPT !.last_gap = s.elapsed, !.elapsed = 0], c, "stamp", 0)
    IN IF s.attempt[c] + 1 < MAX_RETRIES
       THEN Attempt(s1, c, s.attempt[c] + 1)
       ELSE s1

\* the loop goes on after a backoff sleep; past range(MAX_RETRIES) the
\* function body ends
NextIteration(s, c) ==
    IF s.attempt[c] + 1 < MAX_RETRIES
    THEN Attempt(s, c, s.attempt[c] + 1)
    ELSE Return(s, c, NoneResult)

\* request_count += 1
CountRequest(s) == [s EXCEPT !.request_count = @ + 1]

\* last_request_time = time.time()
StampRequest(s) == [s EXCEPT !.last_gap = s.elapsed, !.elapsed = 0]

\* from "last_request_time = time.time()" to the first attempt's await
Dispatch(s, c) ==
    LET s1 == Note(StampRequest(s), c, "stamp", 0)
        s2 == Note(CountRequest(s1), c, "count", 0)
    IN Attempt(s2, c, 0)

\* current_time - last_request_time < RATE_LIMIT_DELAY
TooSoon(s) == s.elapsed < RATE_LIMIT_DELAY

\* the body of "async with self.semaphore", up to its first await
Admitted(s, c) ==
    LET s1 == Note([s EXCEPT !.active_requests = @ + 1], c, "admitted", 0)
    IN IF TooSoon(s1)
       THEN Sleep(s1, c, "rate_sleep", RATE_LIMIT_DELAY)
       ELSE Dispatch(s1, c)

\* Semaphore.acquire(), the entry of "async with self.semaphore"
Acquire(s, c) ==
    IF ~Locked(s)
    THEN Admitted(Note([s EXCEPT !.sem_value = @ - 1], c, "slot", 0), c)
    ELSE [s EXCEPT !.pc[c] = "acquire", !.sem_waiters = Append(@, c)]

\* ----------------------------------------------------------------- actions
\* a forwarding call starts: unified_proxy awaits make_request, which runs up
\* to its first suspension.  Calls are numbered in their order of arrival.
Arrive(c, m, u) ==
    /\ pc[c] = "idle"
    /\ \A d \in Calls : d < c => pc[d] # "idle"
    /\ Becomes(Acquire([State EXCEPT !.method[c] = m, !.url[c] = u], c))

\* a call woken by a release runs again: the rest of Semaphore.acquire(), then
\* the body of the "async with"
Resume(c) ==
    /\ pc[c] = "woken"
    /\ LET s0 == [State EXCEPT !.pc[c] = "running"]
           s1 == IF s0.sem_value > 0 THEN WakeUpNext(s0) ELSE s0
       IN Becomes(Admitted(s1, c))

\* the rate limiter's sleep is over
WakeRateLimit(c) ==
    /\ pc[c] = "rate_sleep"
    /\ timer[c] = 0
    /\ Becomes(Dispatch(State, c))

\* the response or exception object is dropped when the loop goes on
Forget(s, c) ==
    IF s.pc[c] = "done" THEN s ELSE [s EXCEPT !.last_response[c] = NoResponse]

\* the upstream request of the current attempt ends in outcome o: the awaited
\* client call raises, or returns a response on which raise_for_status raises
\* or passes
Respond(c, o) ==
    /\ pc[c] = "io"
    /\ LET k == attempt[c]
           s1 == Note([State EXCEPT !.last_response[c] = o], c, o.kind, k)
       IN Becomes(Forget(IF o.kind = "ok" THEN OnSuccess(s1, c, o)
                         ELSE Raise(s1, c, k, o), c))

\* a backoff sleep is over
WakeBackoff(c) ==
    /\ pc[c] = "backoff"
    /\ timer[c] = 0
    /\ Becomes(NextIteration(State, c))

\* the clock advances by Quantum
Tick ==
    /\ elapsed' = Min(elapsed + Quantum, RATE_LIMIT_DELAY)
    /\ timer' = [c \in Calls |-> Max(timer[c] - Quantum, 0)]
    /\ UNCHANGED <<pc, method, url, attempt, sem_value, sem_waiters,
                   active_requests, request_count, last_gap, log, last_response,
                   result, response, status_reply>>

Next ==
    \/ \E c \in Calls, m \in MethodInputs, u \in UrlInputs : Arrive(c, m, u)
    \/ \E c \in Calls : Resume(c)
    \/ \E c \in Calls : WakeRateLimit(c)
    \/ \E c \in Calls, o \in Outcomes : Respond(c, o)
    \/ \E c \in Calls : WakeBackoff(c)
    \/ Tick

Spec == Init /\ [][Next]_vars

\* The calls under the scheduling the code relies on: the event loop runs
\* every coroutine that is ready (a call woken by a release, a sleep that is
\* over), the clock advances, and no upstream request stays pending: the
\* timeout of the httpx client (src/main.py:54-66) ends it if nothing else
\* does.  Two outcomes are followed: a response that passes and a timeout.
ReadTimeout == CHOOSE e \in TransportErrors : e.text = <<"ReadTimeout">>
LiveOutcomes == OkResponses \cup {ReadTimeout}

LiveNext ==
    \/ \E c \in Calls, m \in MethodInputs, u \in UrlInputs : Arrive(c, m, u)
    \/ \E c \in Calls : Resume(c)
    \/ \E c \in Calls : WakeRateLimit(c)
    \/ \E c \in Calls, o \in LiveOutcomes : Respond(c, o)
    \/ \E c \in Calls : WakeBackoff(c)
    \/ Tick

Fairness ==
    /\ WF_vars(Tick)
    /\ \A c \in Calls :
        /\ WF_vars(Resume(c))
        /\ WF_vars(WakeRateLimit(c))
        /\ WF_vars(WakeBackoff(c))
        /\ WF_vars(Respond(c, ReadTimeout))

FairSpec == Init /\ [][LiveNext]_vars /\ Fairness

\* the dict get_status returns; "uptime", an absolute time.time(), and the
\* constants that play no part in the calls are left out
StatusDict(count, active) ==
    [status |-> "running",
     requests_processed |-> count,
     active_requests |-> active,
     max_concurrent |-> MAX_CONCURRENT_REQUESTS,
     rate_limit_delay |-> RATE_LIMIT_DELAY,
     max_retries |-> MAX_RETRIES]

\* a status request that counts itself as a request
GetStatusCounting ==
    /\ request_count < NumCalls
    /\ request_count' = request_count + 1
    /\ status_reply' = StatusDict(request_count + 1, active_requests)
    /\ UNCHANGED <<pc, method, url, attempt, timer, sem_value, sem_waiters,
                   active_requests, elapsed, last_gap, log, last_response,
                   result, response>>

\* get_status: the handler has no await and runs at once, between the steps
\* of the forwarding calls; it reads the globals and assigns nothing
GetStatus ==
    /\ status_reply' = StatusDict(request_count, active_requests)
    /\ UNCHANGED <<pc, method, url, attempt, timer, sem_value, sem_waiters,
                   active_requests, request_count, elapsed, last_gap, log,
                   last_response, result, response>>

\* the forwarding calls, and status requests at any moment
StatusNext ==
    \/ LiveNext
    \/ GetStatus

StatusSpec == Init /\ [][StatusNext]_vars

\* one forwarding call served alone, with every request and every response
\* of the wide input sets
ProxyNext ==
    \/ \E m \in WideMethodInputs, u \in WideUrlInputs : Arrive(1, m, u)
    \/ \E o \in WideOutcomes : Respond(1, o)
    \/ WakeBackoff(1)
    \/ Tick

ProxySpec == Init /\ [][ProxyNext]_vars

\* ------------------------------------------------------------------ claims
Unsupported(c) == Upper(method[c]) \notin SupportedMethods
Started(c) == pc[c] # "idle"
\* calls past admission and not yet released
InFlight == {c \in Calls : pc[c] \in {"rate_sleep", "io", "backoff"}}
\* calls that hold an admission slot
SlotHolders == {c \in Calls : pc[c] \in {"woken", "rate_sleep", "io", "backoff"}}
AtGate == {c \in Calls : pc[c] = "acquire"}

\* C1: at most MAX_CONCURRENT_REQUESTS calls are past admission and not yet
\* released; a call waiting at the gate has issued no upstream request, and
\* while MAX_CONCURRENT_REQUESTS calls hold slots it leaves the gate only in
\* a step in which one of them completes.
C1_AdmissionBound ==
    /\ [](/\ Cardinality(SlotHolders) <= MAX_CONCURRENT_REQUESTS
          /\ \A c \in AtGate : CountEv(log[c], "upstream") = 0)
    /\ [][\A c \in AtGate :
            (Cardinality(SlotHolders) = MAX_CONCURRENT_REQUESTS /\ pc'[c] # "acquire")
            => \E d \in SlotHolders : pc'[d] = "done"]_vars

\* C1 witness: every slot is held by a call doing upstream I/O while another
\* call waits at the gate.
C1_Witness ==
    /\ AtGate # {}
    /\ Cardinality({c \in Calls : pc[c] = "io"}) = MAX_CONCURRENT_REQUESTS

\* C2: the elapsed time between two consecutive writes of last_request_time
\* is at least RATE_LIMIT_DELAY.
C2_DispatchSpacing == last_gap >= RATE_LIMIT_DELAY

\* C3: a call with an unsupported method ends in a failure without any
\* upstream request, rate-limit wait or backoff sleep.
C3_UnsupportedFailsFast ==
    \A c \in Calls : (pc[c] = "done" /\ Unsupported(c)) =>
        /\ result[c].kind = "result"
        /\ result[c].success = FALSE
        /\ CountEv(log[c], "upstream") = 0
        /\ CountEv(log[c], "rate_sleep") = 0
        /\ CountEv(log[c], "backoff") = 0

\* C4: a call with an unsupported method never holds an admission slot, never
\* touches active_requests and enters no iteration of the retry loop.
C4_UnsupportedTakesNoSlot ==
    \A c \in Calls : (Started(c) /\ Unsupported(c)) =>
        /\ CountEv(log[c], "slot") = 0
        /\ CountEv(log[c], "admitted") = 0
        /\ CountEv(log[c], "iter") = 0

\* C5: active_requests is the number of calls admitted and not yet completed,
\* between 0 and MAX_CONCURRENT_REQUESTS; the free slots are those no call
\* holds; a completed call has taken and given back one slot and has
\* incremented and decremented active_requests once, on every exit path; with
\* no call in flight active_requests is 0 and every slot is free.
C5_ActiveRequests ==
    /\ active_requests = Cardinality(InFlight)
    /\ 0 <= active_requests /\ active_requests <= MAX_CONCURRENT_REQUESTS
    /\ sem_value = MAX_CONCURRENT_REQUESTS - Cardinality(SlotHolders)
    /\ \A c \in Calls : pc[c] = "done" =>
        /\ CountEv(log[c], "slot") = 1 /\ CountEv(log[c], "release") = 1
        /\ CountEv(log[c], "admitted") = 1 /\ CountEv(log[c], "finally") = 1
    /\ (\A c \in Calls : pc[c] \in {"idle", "done"}) =>
        (active_requests = 0 /\ sem_value = MAX_CONCURRENT_REQUESTS)

\* C5 witness: all calls are over, one after exhausted status errors, one
\* after exhausted transport errors, one with an unsupported method.
C5_Witness ==
    /\ \A c \in Calls : pc[c] = "done"
    /\ \E c \in Calls : CountEv(log[c], "status") = MAX_RETRIES
    /\ \E c \in Calls : CountEv(log[c], "transport") = MAX_RETRIES
    /\ \E c \in Calls : Unsupported(c)

\* the upstream requests and backoff sleeps of a call, in order
AttemptTrace(c) == SelectSeq(log[c], LAMBDA e : e.ev \in {"upstream", "backoff"})

\* n failed attempts: a sleep of 2^k seconds after attempt k, none after the last
RECURSIVE FailingTrace(_)
FailingTrace(n) ==
    IF n = 0 THEN <<>>
    ELSE IF n = 1 THEN <<Ev("upstream", 0)>>
    ELSE FailingTrace(n - 1) \o <<Ev("backoff", 1000 * (2 ^ (n - 2))), Ev("upstream", n - 1)>>

RECURSIVE SumSeq(_)
SumSeq(q) == IF q = <<>> THEN 0 ELSE q[1] + SumSeq(Tail(q))

\* the call is over and every upstream request it issued failed
AllFailed(c) ==
    pc[c] = "done" /\ ~Unsupported(c) /\ CountEv(log[c], "ok") = 0
AllStatusErrors(c) == pc[c] = "done" /\ CountEv(log[c], "status") = MAX_RETRIES
AllTransportErrors(c) == pc[c] = "done" /\ CountEv(log[c], "transport") = MAX_RETRIES

\* C6: a call whose every upstream request fails issues exactly MAX_RETRIES
\* requests, sleeps 2^attempt seconds after each of them but the last, and so
\* 1 + 2 + ... + 2^(MAX_RETRIES-2) seconds in all.
C6_RetriesAndBackoff ==
    \A c \in Calls : AllFailed(c) =>
        /\ AttemptTrace(c) = FailingTrace(MAX_RETRIES)
        /\ CountEv(log[c], "upstream") = MAX_RETRIES
        /\ SumSeq(ArgsOf(log[c], "backoff")) = 1000 * ((2 ^ (MAX_RETRIES - 1)) - 1)

\* C6 witness: a call is over after failed attempts of both kinds.
C6_Witness ==
    \E c \in Calls :
        /\ AllFailed(c)
        /\ CountEv(log[c], "status") >= 1
        /\ CountEv(log[c], "transport") >= 1

\* C7: every call that is over has returned a result with a success flag: no
\* exception has left make_request and no path has returned without a result.
C7_AlwaysAResult ==
    \A c \in Calls : pc[c] = "done" =>
        /\ result[c].kind = "result"
        /\ result[c].success \in BOOLEAN

\* C7 witness: calls are over after a success, after exhausted retries and
\* with an unsupported method.
C7_Witness ==
    /\ \E c \in Calls : pc[c] = "done" /\ CountEv(log[c], "ok") = 1
    /\ \E c \in Calls : AllFailed(c)
    /\ \E c \in Calls : pc[c] = "done" /\ Unsupported(c)

\* C8: after a status error on all MAX_RETRIES attempts the result has
\* success = FALSE, the status code of the final response, and an error made
\* of that status and the response body.
C8_StatusErrorResult ==
    \A c \in Calls : AllStatusErrors(c) =>
        /\ result[c].kind = "result"
        /\ result[c].success = FALSE
        /\ result[c].status_code = last_response[c].status
        /\ result[c].error = <<"HTTP", last_response[c].status, last_response[c].text>>

\* C8 witness: a call is over after MAX_RETRIES status errors, the last a 503.
C8_Witness ==
    \E c \in Calls : AllStatusErrors(c) /\ last_response[c].status = 503

\* C9: after a transport failure on every attempt the result has
\* success = FALSE, status code 500 and the final failure's message as error.
C9_TransportErrorResult ==
    \A c \in Calls : AllTransportErrors(c) =>
        /\ result[c].kind = "result"
        /\ result[c].success = FALSE
        /\ result[c].status_code = 500
        /\ result[c].error = <<last_response[c].text>>

\* C9 witness: a call is over after MAX_RETRIES transport failures, the last a
\* connection failure.
C9_Witness ==
    \E c \in Calls : AllTransportErrors(c) /\ last_response[c].text = <<"ConnectError">>

\* C10: request_count is the number of calls that have passed the counting
\* point, each call counts itself exactly once whatever its outcome and its
\* number of attempts, and request_count never decreases.
C10_RequestCount ==
    /\ [](/\ request_count = Cardinality({c \in Calls : pc[c] \in {"io", "backoff", "done"}})
          /\ \A c \in Calls : pc[c] = "done" => CountEv(log[c], "count") = 1)
    /\ [][request_count' >= request_count]_vars

\* C10 witness: all calls are over, after a success, after exhausted retries
\* and with an unsupported method, and request_count is their number.
C10_Witness ==
    /\ \A c \in Calls : pc[c] = "done"
    /\ request_count = NumCalls
    /\ \E c \in Calls : CountEv(log[c], "ok") = 1 /\ CountEv(log[c], "upstream") > 1
    /\ \E c \in Calls : AllFailed(c)
    /\ \E c \in Calls : Unsupported(c)

\* calls suspended in a sleep of the kind given
Sleeping(why) == {c \in Calls : pc[c] = why}
\* the call holds a slot it has not given back, and is counted in
\* active_requests
HoldsSlot(c) ==
    /\ CountEv(log[c], "slot") = 1 /\ CountEv(log[c], "release") = 0
    /\ CountEv(log[c], "admitted") = 1 /\ CountEv(log[c], "finally") = 0

\* C15: a call that reaches the rate limiter e ms after the last recorded
\* dispatch sleeps RATE_LIMIT_DELAY - e ms when e < RATE_LIMIT_DELAY, and does
\* not sleep when e >= RATE_LIMIT_DELAY.
C15_SleepsTheRemainder ==
    [][\A c \in Calls :
        /\ (pc[c] \in {"idle", "woken"} /\ pc'[c] = "rate_sleep")
              => (elapsed < RATE_LIMIT_DELAY /\ timer'[c] = RATE_LIMIT_DELAY - elapsed)
        /\ (pc[c] \in {"idle", "woken"} /\ pc'[c] \notin {"idle", "woken", "acquire"})
              => (elapsed >= RATE_LIMIT_DELAY <=> pc'[c] # "rate_sleep")]_vars

\* C16: each call writes last_request_time exactly once, after at most one
\* rate-limit sleep and before its first attempt; the steps that start its
\* second and later attempts leave the time stamp alone and sleep no
\* rate-limit wait.
C16_RateLimitOncePerCall ==
    /\ [](\A c \in Calls :
            /\ CountEv(log[c], "stamp") <= 1
            /\ CountEv(log[c], "rate_sleep") <= 1
            /\ CountEv(log[c], "iter") >= 1 =>
                 /\ CountEv(log[c], "stamp") = 1
                 /\ \E i \in 1..Len(log[c]) :
                      /\ log[c][i].ev = "stamp"
                      /\ \A j \in 1..Len(log[c]) :
                           (log[c][j].ev \in {"iter", "upstream", "backoff"} => i < j)
                           /\ (log[c][j].ev = "rate_sleep" => j < i))
    /\ [][\A c \in Calls : (pc[c] = "backoff" /\ pc'[c] # "backoff")
            => (elapsed' = elapsed /\ last_gap' = last_gap /\ pc'[c] # "rate_sleep")]_vars

\* C16 witness: a call that slept in the rate limiter is over after
\* MAX_RETRIES attempts.
C16_Witness ==
    \E c \in Calls :
        /\ pc[c] = "done"
        /\ CountEv(log[c], "rate_sleep") = 1
        /\ CountEv(log[c], "upstream") = MAX_RETRIES

\* C17: a call sleeping in backoff or in the rate limiter holds its slot and
\* is counted in active_requests; when MAX_CONCURRENT_REQUESTS calls sleep in
\* backoff no slot is free and a call that arrives queues at the gate.
C17_SlotHeldWhileSleeping ==
    /\ [](/\ \A c \in Sleeping("backoff") \cup Sleeping("rate_sleep") : HoldsSlot(c)
          /\ active_requests >= Cardinality(Sleeping("backoff") \cup Sleeping("rate_sleep"))
          /\ Cardinality(Sleeping("backoff")) = MAX_CONCURRENT_REQUESTS
                => (sem_value = 0 /\ active_requests = MAX_CONCURRENT_REQUESTS))
    /\ [][\A c \in Calls :
            (Cardinality(Sleeping("backoff")) = MAX_CONCURRENT_REQUESTS
             /\ pc[c] = "idle" /\ pc'[c] # "idle") => pc'[c] = "acquire"]_vars

\* C17 witness: every slot is held by a call sleeping in backoff while
\* another call waits at the gate.
C17_Witness ==
    /\ Cardinality(Sleeping("backoff")) = MAX_CONCURRENT_REQUESTS
    /\ AtGate # {}

\* the kinds of the responses and failures of the call's attempts, in order
OutcomeTrace(c) == SelectSeq(log[c], LAMBDA e : e.ev \in {"ok", "status", "transport"})

\* C18: a successful attempt ends the call at once, with success = TRUE and
\* the "finally" and the release as its only later steps; a result has
\* success = TRUE only if an attempt of the call succeeded.
C18_ReturnsOnFirstSuccess ==
    \A c \in Calls :
        /\ CountEv(log[c], "ok") >= 1 =>
             /\ pc[c] = "done"
             /\ result[c].kind = "result" /\ result[c].success = TRUE
             /\ CountEv(log[c], "ok") = 1
             /\ Len(log[c]) >= 3
             /\ log[c][Len(log[c]) - 2].ev = "ok"
             /\ log[c][Len(log[c]) - 1].ev = "finally"
             /\ log[c][Len(log[c])].ev = "release"
             /\ CountEv(log[c], "upstream") = log[c][Len(log[c]) - 2].n + 1
        /\ (pc[c] = "done" /\ result[c].kind = "result" /\ result[c].success = TRUE)
             => CountEv(log[c], "ok") = 1

\* C18 witness: one call succeeded at its first attempt, another at its last
\* after failures of both kinds.
C18_Witness ==
    /\ \E c \in Calls : pc[c] = "done" /\ OutcomeTrace(c) = <<Ev("ok", 0)>>
    /\ \E c \in Calls :
        /\ pc[c] = "done" /\ result[c].success = TRUE
        /\ Len(OutcomeTrace(c)) = MAX_RETRIES
        /\ CountEv(log[c], "status") >= 1 /\ CountEv(log[c], "transport") >= 1

\* C19: the result of a call whose attempts all failed is that of the final
\* attempt: status 500 after a final transport failure, the upstream status
\* after a final status error, whatever the earlier attempts ended in.
C19_FinalAttemptDecides ==
    \A c \in Calls : AllFailed(c) =>
        /\ result[c].kind = "result" /\ result[c].success = FALSE
        /\ last_response[c].kind = "transport" =>
             (result[c].status_code = 500 /\ result[c].error = <<last_response[c].text>>)
        /\ last_response[c].kind = "status" =>
             result[c].status_code = last_response[c].status

\* C19 witness: one call ends in a transport failure after a status error,
\* another in a status error after a transport failure.
C19_Witness ==
    /\ \E c \in Calls :
        /\ AllFailed(c) /\ CountEv(log[c], "status") >= 1
        /\ last_response[c].kind = "transport" /\ result[c].status_code = 500
    /\ \E c \in Calls :
        /\ AllFailed(c) /\ CountEv(log[c], "transport") >= 1
        /\ last_response[c].kind = "status" /\ result[c].status_code = 503

\* ------------------------------------------------- claims on the response
Blank(text) == \A i \in 1..Len(text) : text[i] \in Whitespace
Succeeded(c) == pc[c] = "done" /\ last_response[c].kind = "ok"
HasWarning(r) == "parse_warning" \in DOMAIN r

\* C11: after an attempt whose response passed, the result has success = TRUE
\* and the upstream status code; its data is the empty dict for an empty or
\* whitespace-only body (status 204 included), the parsed structure for a body
\* that is valid JSON, and the raw text, with a parse warning, for any other
\* body; no warning is attached in the first two cases.
C11_BodyNormalisation ==
    \A c \in Calls :
        Succeeded(c) =>
            LET text == last_response[c].text
                r == result[c]
            IN /\ r.kind = "result" /\ r.success
               /\ r.status_code = last_response[c].status
               /\ Blank(text) => r.data = PyDict(<<>>) /\ ~HasWarning(r)
               /\ (~Blank(text) /\ JsonLoads(text).ok)
                     => r.data = JsonLoads(text).val /\ ~HasWarning(r)
               /\ (~Blank(text) /\ ~JsonLoads(text).ok)
                     => r.data = PyStr(text) /\ HasWarning(r)
               /\ text = <<" ", "\n">> => r.data = PyDict(<<>>)
               /\ text = <<" ", "{", "\"", "a", "\"", ":", "1", "}", "\n">>
                     => r.data = PyDict(<< <<(<<"a">>), PyInt(1)>> >>)
               /\ text = <<"[", "1", ",", "2", "]">>
                     => r.data = PyList(<<PyInt(1), PyInt(2)>>)
               /\ text \in {<<"O", "K">>, <<"{", "\"", "a", "\"", ":">>, <<"1", " ", "2">>}
                     => r.data = PyStr(text) /\ HasWarning(r)

\* a 204 with an empty body, answered after a retry
C11_Witness ==
    \E c \in Calls :
        /\ Succeeded(c) /\ attempt[c] > 0
        /\ last_response[c].status = 204 /\ last_response[c].text = <<>>
        /\ result[c].data = PyDict(<<>>)

\* the header names not to be relayed, in lower case
HopHeaders == {"content-length", "transfer-encoding", "content-encoding"}
\* the keys of the headers unified_proxy gives its answer
HeaderKeys(c) ==
    IF "headers" \in DOMAIN response[c] THEN Keys(response[c].headers) ELSE {}
Relayed(c) == pc[c] = "done" /\ response[c].kind = "Response"

\* C12: the headers unified_proxy relays contain no key that is, letter case
\* aside, content-length, transfer-encoding or content-encoding, whatever
\* letter case the upstream used for these names.
C12_NoHopHeadersRelayed ==
    \A c \in Calls :
        Relayed(c) => \A k \in HeaderKeys(c) : Lower(k) \notin HopHeaders

\* the upstream sent CONTENT-LENGTH and Transfer-Encoding; its content-type
\* is relayed
C12_Witness ==
    \E c \in Calls :
        /\ Relayed(c)
        /\ {"CONTENT-LENGTH", "Transfer-Encoding"}
              \subseteq {p[1] : p \in last_response[c].headers}
        /\ "content-type" \in HeaderKeys(c)

ProvenanceHeaders == {"X-Proxy-Status", "X-Proxy-Method", "X-Proxy-URL"}

\* C13: every answer to a finished forwarding call, failed calls included,
\* carries the headers X-Proxy-Status, X-Proxy-Method and X-Proxy-URL.
C13_ProvenanceOnEveryResponse ==
    \A c \in Calls : pc[c] = "done" => ProvenanceHeaders \subseteq HeaderKeys(c)

\* ------------------------------------------------------ claims on progress
WasAdmitted(c) == CountEv(log[c], "admitted") > 0
Released(c) == pc[c] = "done" /\ CountEv(log[c], "release") = 1 /\ c \notin SlotHolders

C20_StatusIsReadOnly ==
    [][status_reply' # status_reply =>
          /\ UNCHANGED <<request_count, active_requests, elapsed, last_gap,
                         sem_value, sem_waiters, pc, attempt, timer, log,
                         result, response>>
          /\ status_reply'.requests_processed = request_count
          /\ status_reply'.active_requests = active_requests
          /\ status_reply'.max_concurrent = MAX_CONCURRENT_REQUESTS]_vars

\* a status reported while the gate is full and a call waits at it
C20_Witness ==
    /\ status_reply # NoStatus
    /\ status_reply.active_requests = MAX_CONCURRENT_REQUESTS
    /\ status_reply.requests_processed = request_count
    /\ Cardinality(InFlight) = MAX_CONCURRENT_REQUESTS
    /\ AtGate # {}
====
